---- MODULE Spec2Model ----
(***************************************************************************)
(* A model of the Evaly product analyzer: the analysis engine and its      *)
(* dashboard handler (src/app.py) and the Shopify catalog connector        *)
(* (src/shopify_connector.py).                                             *)
(*                                                                         *)
(* Every operation of the program is synchronous and runs to completion,   *)
(* so each action below is one whole call: its inputs are drawn with \E,   *)
(* and the variables hold what the call left behind (what it returned or   *)
(* raised, what it rendered, what it changed in the connector).            *)
(***************************************************************************)
EXTENDS Integers, Sequences, FiniteSets, TLC

VARIABLES
    \* ---- src/app.py ----
    appOp,        \* the last operation run: "none", "start_btn", "analyze_product"
    provider,     \* the provider string handed to the operation
    api_key,      \* the credential handed to the operation
    product,      \* input_data
    response,     \* what the provider did with the call (NoResponse when not
                  \* called, Refused when the adapter library refused to build)
    llm,          \* EvalyEngine.llm of the engine the operation built (NoLlm when none)
    sent,         \* the messages handed to llm.invoke, in order
    parsed,       \* the texts handed to output_parser.parse, in order
    outcome,      \* of analyze_product: "none", "returned", "raised"
    result,       \* what analyze_product returned (NoResult when it did not return)
    view,         \* the widgets the handler rendered, in order
    \* ---- src/shopify_connector.py ----
    constructed,  \* TRUE once the caller has a ShopifyConnector at hand
    raw_url,      \* the shop_url argument of the last ShopifyConnector(...)
    shop_url,     \* ShopifyConnector.shop_url
    session,      \* ShopifyConnector.session
    active,       \* the session activated in the SDK (ShopifyResource)
    opener,       \* who activated the session in `active`: "connector" (the
                  \* one at hand), "test_connection" (the one of a call of
                  \* test_connection), "earlier" (one from before), "none"
    access_token, \* ShopifyConnector.access_token
    sdkReply,     \* what the SDK did in the last connector operation
    catOp,        \* the last connector operation
    ret,          \* what it returned
    propagated    \* TRUE when it let an exception out

appVars == <<appOp, provider, api_key, product, response, llm, sent, parsed,
             outcome, result, view>>
catVars == <<constructed, raw_url, shop_url, session, active, opener,
             access_token, sdkReply, catOp, ret, propagated>>
vars == <<appVars, catVars>>

(***************************************************************************)
(* Bounds of the model.                                                    *)
(***************************************************************************)
MaxPlan == 2          \* action_plan lists of 0..MaxPlan items
MaxVariants == 2      \* product records with 0..MaxVariants variants
MaxImages == 2        \* product records with 0..MaxImages images
MaxProducts == 2      \* listings of 0..MaxProducts records
MaxPieces == 3        \* raw shop identifiers of 0..MaxPieces pieces

(***************************************************************************)
(* src/app.py: the analysis engine                                         *)
(***************************************************************************)
ScoreMin == 0
ScoreMax == 10
PromptScoreMax == 100

Criteria == <<"margin", "platform_fit", "trend", "competition", "content",
              "shipping", "scalability", "brand", "risk">>
CriteriaSet == {Criteria[i] : i \in 1..Len(Criteria)}

Verdicts == {"GREENLIGHT", "GO", "FIX", "KILL"}

\* The options of the "Choose AI Model" selectbox.
ModelChoices == <<"OpenAI (GPT-4o)", "Google (Gemini 1.5 Pro)",
                  "Anthropic (Claude 3.5 Sonnet)">>
ModelChoiceSet == {ModelChoices[i] : i \in 1..Len(ModelChoices)}

NoLlm == [cls |-> "none"]
NoResponse == [kind |-> "none"]
NoResult == [none |-> TRUE]
NoProduct == [none |-> TRUE]

\* A router whose else branch builds nothing.
RouterNoFallback(model_provider, key) ==
    IF model_provider = "OpenAI (GPT-4o)"
    THEN [cls |-> "ChatOpenAI", temperature |-> 0, model |-> "gpt-4o",
          api_key |-> key]
    ELSE IF model_provider = "Google (Gemini 1.5 Pro)"
    THEN [cls |-> "ChatGoogleGenerativeAI", temperature |-> 0,
          model |-> "gemini-1.5-pro", api_key |-> key]
    ELSE IF model_provider = "Anthropic (Claude 3.5 Sonnet)"
    THEN [cls |-> "ChatAnthropic", temperature |-> 0,
          model |-> "claude-3-5-sonnet-20240620", api_key |-> key]
    ELSE NoLlm

\* The model router of EvalyEngine.__init__.
Router(model_provider, key) ==
    IF model_provider = "OpenAI (GPT-4o)"
    THEN [cls |-> "ChatOpenAI", temperature |-> 0, model |-> "gpt-4o",
          api_key |-> key]
    ELSE IF model_provider = "Google (Gemini 1.5 Pro)"
    THEN [cls |-> "ChatGoogleGenerativeAI", temperature |-> 0,
          model |-> "gemini-1.5-pro", api_key |-> key]
    ELSE IF model_provider = "Anthropic (Claude 3.5 Sonnet)"
    THEN [cls |-> "ChatAnthropic", temperature |-> 0,
          model |-> "claude-3-5-sonnet-20240620", api_key |-> key]
    ELSE [cls |-> "ChatOpenAI", temperature |-> 0, model |-> "gpt-4o",
          api_key |-> key]

\* The three ResponseSchema names of run_analysis.
ResponseSchemas == <<"verdict", "action_plan", "scores">>
SchemaNames == {ResponseSchemas[i] : i \in 1..Len(ResponseSchemas)}

\* context_prompt.format_messages(...): the template's six slots.
FormatMessages(engine_data, model_type, platform) ==
    [model |-> model_type, platform |-> platform,
     product_name |-> engine_data.name, price |-> engine_data.price,
     cost |-> engine_data.cost, format_instructions |-> ResponseSchemas]

\* output_parser.parse(text): the text must decode as a JSON object and hold
\* every schema name as a key; the decoded object is returned as it is.
\* Nothing below the top level is looked at.
Parse(text) ==
    IF text.kind # "json" THEN [ok |-> FALSE, value |-> NoResult]
    ELSE IF \E name \in SchemaNames : name \notin DOMAIN text.obj
    THEN [ok |-> FALSE, value |-> NoResult]
    ELSE [ok |-> TRUE, value |-> text.obj]

\* A run_analysis that sends the prompt again when the first reply fails.
RunAnalysisRetry(adapter, engine_data, reply) ==
    LET msg == FormatMessages(engine_data, engine_data.business_model,
                              engine_data.platform)
    IN  IF reply.kind = "error"
        THEN [sent |-> <<msg, msg>>, parsed |-> <<>>, outcome |-> "raised",
              result |-> NoResult]
        ELSE LET p == Parse(reply)
             IN  [sent |-> IF p.ok THEN <<msg>> ELSE <<msg, msg>>,
                  parsed |-> IF p.ok THEN <<reply>> ELSE <<reply, reply>>,
                  outcome |-> IF p.ok THEN "returned" ELSE "raised",
                  result |-> p.value]

\* EvalyEngine.run_analysis on an engine whose adapter is `adapter`: one
\* invoke, then one parse of what came back. `reply` is the provider's part.
RunAnalysis(adapter, engine_data, reply) ==
    LET msg == FormatMessages(engine_data, engine_data.business_model,
                              engine_data.platform)
    IN  IF reply.kind = "error"
        THEN [sent |-> <<msg>>, parsed |-> <<>>, outcome |-> "raised",
              result |-> NoResult]
        ELSE LET p == Parse(reply)
             IN  [sent |-> <<msg>>, parsed |-> <<reply>>,
                  outcome |-> IF p.ok THEN "returned" ELSE "raised",
                  result |-> p.value]

\* The adapter's constructor raising: the library refuses the credential
\* it is handed, no engine is built and nothing is sent.
Refused == [kind |-> "refused"]

\* analyze_product(input_data, api_key, model_provider): the engine is
\* built, which hands the credential to the adapter's constructor, and
\* run_analysis is called on it.  Neither tests the credential.
AnalyzeProductCall(input_data, key, model_provider, reply) ==
    IF reply = Refused
    THEN [llm |-> NoLlm, sent |-> <<>>, parsed |-> <<>>, outcome |-> "raised",
          result |-> NoResult]
    ELSE LET adapter == Router(model_provider, key)
         IN  [llm |-> adapter] @@ RunAnalysis(adapter, input_data, reply)

(***************************************************************************)
(* What the provider may answer.  A reply is the failure of the call, or   *)
(* a text: the empty string, prose that is no JSON, a JSON array, or a     *)
(* JSON object.  A JSON object is the function from its keys to its        *)
(* values; a JSON number n is JInt(n) and a JSON string holding the        *)
(* digits of n is JStr(n).                                                 *)
(***************************************************************************)
JInt(n) == [t |-> "int", n |-> n]
JStr(n) == [t |-> "str", n |-> n]

Entry(score) == [score |-> score, insight |-> "because"]

Uniform(score) == [k \in CriteriaSet |-> Entry(score)]

BaseScores == {JInt(ScoreMin), JInt(ScoreMax)}
OddScores == {JInt(ScoreMin - 1), JInt(ScoreMax + 1), JInt(PromptScoreMax),
              JStr(ScoreMax - 1)}

ScoreObjs ==
    UNION { {Uniform(b)}
            \cup {[Uniform(b) EXCEPT ![c] = Entry(o)] :
                      c \in CriteriaSet, o \in OddScores}
            \cup {[k \in CriteriaSet \ {c} |-> Entry(b)] : c \in CriteriaSet}
            \cup {[k \in CriteriaSet \cup {"extra"} |-> Entry(b)]}
          : b \in BaseScores }

Plans == UNION {[1..n -> {"do this"}] : n \in 0..MaxPlan}

FullObjs ==
    {[verdict |-> v, action_plan |-> p, scores |-> s] :
        v \in Verdicts \cup {"MAYBE"}, p \in Plans, s \in ScoreObjs}

\* Objects that lack one of the top-level keys.
Lacking ==
    {[k \in SchemaNames \ {d} |->
         [verdict |-> v, action_plan |-> p,
          scores |-> Uniform(JInt(ScoreMax))][k]] :
        d \in SchemaNames, v \in Verdicts, p \in Plans}

Replies ==
    {[kind |-> "error"], [kind |-> "empty"], [kind |-> "prose"],
     [kind |-> "json_array"]}
    \cup {[kind |-> "json", obj |-> o] : o \in FullObjs \cup Lacking}

Keys == {"", "sk-live"}

\* What the adapter library and the provider may do with a call that hands
\* them the credential `key`.  The adapters are library code: src/ does not
\* decide whether they refuse an empty credential when they are built or
\* take it and leave it to the provider, so either may happen.
Answers(key) == IF key = "" THEN Replies \cup {Refused} ELSE Replies
Providers == ModelChoiceSet \cup {"Mistral (Large)"}

InputData ==
    {[name |-> "Red Light Therapy Belt", cost |-> 28, price |-> 129,
      business_model |-> "Private Label", platform |-> "Shopify"],
     [name |-> "Phone Case", cost |-> 2, price |-> 15,
      business_model |-> "Dropshipping", platform |-> "TikTok Shop"]}

(***************************************************************************)
(* src/app.py: the dashboard's results block                               *)
(***************************************************************************)
\* A verdict header without the FIX line.
ColorNoFix(verdict) ==
    IF verdict \in {"GREENLIGHT", "GO"} THEN "#28a745" ELSE "#dc3545"

\* The banner colour of the verdict header.
Color(verdict) ==
    LET first == IF verdict \in {"GREENLIGHT", "GO"} THEN "#28a745"
                 ELSE "#dc3545"
    IN  IF verdict = "FIX" THEN "#ffc107" ELSE first

Divider == [w |-> "divider"]

\* The except branch: st.error, then st.warning.
Failure == <<[w |-> "error", text |-> "An error occurred"],
             [w |-> "warning", text |-> "check your API Key"]>>

\* The nine st.metric / st.caption pairs, in the order of the three rows,
\* from the i-th on.  Indexing scores[k] raises when k is missing: the
\* widgets rendered before it stay on the page.
RECURSIVE Scorecard(_, _, _)
Scorecard(scores, i, acc) ==
    IF i > Len(Criteria) THEN [ok |-> TRUE, view |-> acc]
    ELSE LET k == Criteria[i]
         IN  IF k \notin DOMAIN scores THEN [ok |-> FALSE, view |-> acc]
             ELSE Scorecard(scores, i + 1,
                     acc \o <<[w |-> "metric", key |-> k,
                               value |-> scores[k].score],
                              [w |-> "caption", key |-> k,
                               text |-> scores[k].insight]>>
                         \o (IF i % 3 = 0 /\ i < Len(Criteria)
                             THEN <<Divider>> ELSE <<>>))

\* The body of the try block after analyze_product has returned `res`.
Render(res) ==
    LET plan == res.action_plan
    IN  IF Len(plan) = 0 THEN Failure      \* action_plan[0] raises
        ELSE LET head == <<[w |-> "banner", color |-> Color(res.verdict),
                            verdict |-> res.verdict, text |-> plan[1]],
                           Divider,
                           [w |-> "subheader", text |-> "scorecard"]>>
                 card == Scorecard(res.scores, 1, head)
             IN  IF ~card.ok THEN card.view \o Failure
                 ELSE card.view
                      \o <<Divider, [w |-> "subheader", text |-> "plan"]>>
                      \o [i \in 1..Len(plan) |->
                             [w |-> "plan_item", text |-> plan[i]]]

KeyGiven(user_api_key) == user_api_key # ""

\* What `if start_btn:` renders when the key is missing.
KeyMissing == <<[w |-> "error", text |-> "Please enter your API Key"]>>

(***************************************************************************)
(* src/shopify_connector.py: text.  A Python str is the sequence of its    *)
(* characters.                                                             *)
(***************************************************************************)
Https == <<"h", "t", "t", "p", "s", ":", "/", "/">>
Http == <<"h", "t", "t", "p", ":", "/", "/">>
Suffix == <<".", "m", "y", "s", "h", "o", "p", "i", "f", "y", ".", "c", "o", "m">>
ProductsPath == <<"/", "p", "r", "o", "d", "u", "c", "t", "s", "/">>

StartsWith(s, pre) ==
    Len(s) >= Len(pre) /\ SubSeq(s, 1, Len(pre)) = pre

EndsWith(s, suf) ==
    Len(s) >= Len(suf) /\ SubSeq(s, Len(s) - Len(suf) + 1, Len(s)) = suf

Has(s, c) == \E i \in DOMAIN s : s[i] = c

\* str.replace(old, new): every occurrence of old, leftmost first, none
\* overlapping; what the replacement produces is not searched again.
RECURSIVE Replace(_, _, _)
Replace(s, old, new) ==
    IF Len(s) < Len(old) THEN s
    ELSE IF StartsWith(s, old)
    THEN new \o Replace(SubSeq(s, Len(old) + 1, Len(s)), old, new)
    ELSE <<Head(s)>> \o Replace(Tail(s), old, new)

\* A normalization that strips only the https:// scheme.
NormalizeHttpsOnly(url) ==
    LET stripped == Replace(url, Https, <<>>)
    IN  IF ~EndsWith(stripped, Suffix) /\ ~Has(stripped, ".")
        THEN stripped \o Suffix
        ELSE stripped

\* The shop_url that ShopifyConnector.__init__ keeps.
Normalize(url) ==
    LET stripped == Replace(Replace(url, Https, <<>>), Http, <<>>)
    IN  IF ~EndsWith(stripped, Suffix)
        THEN IF ~Has(stripped, ".") THEN stripped \o Suffix ELSE stripped
        ELSE stripped

(***************************************************************************)
(* src/shopify_connector.py: values.  A Python value carries its type:     *)
(* None, a bool, an int, a str, or a float.  A str is the sequence of its  *)
(* characters: the printable ASCII ones and \t \n \r \f as themselves,     *)
(* every other one by its code point, "U+000B", "U+0663", "U+1D7CE".  An   *)
(* int has no largest value: it is its sign and its decimal digits, no 0   *)
(* in front, and 0 is "0" without a sign.                                  *)
(*                                                                         *)
(* A float is an IEEE 754 double, as in CPython: inf, -inf, nan, or the    *)
(* finite value (+/-) bits * 2^exp, where bits is the binary numeral of an *)
(* odd integer below 2^53, most significant bit first (<<>> for zero), and *)
(* exp is in -1074..1023.  0.0 and -0.0, which compare equal, are one      *)
(* value.                                                                  *)
(***************************************************************************)
PyNone == [t |-> "None"]
PyBool(b) == [t |-> "bool", b |-> b]
PyLong(neg, digits) == [t |-> "int", neg |-> neg, digits |-> digits]
PyStr(s) == [t |-> "str", s |-> s]
PyInf(neg) == [t |-> "float", special |-> "inf", neg |-> neg]
PyNan == [t |-> "float", special |-> "nan"]

PyZero == [t |-> "float", neg |-> FALSE, bits |-> <<>>, exp |-> 0]

Min(S) == CHOOSE i \in S : \A j \in S : i <= j
Max(S) == CHOOSE i \in S : \A j \in S : j <= i

\* The widths of a double: bits of the significand, the exponent of the
\* largest power of two, and that of the smallest normal one.
Precision == 53
MaxExp == 1023
MinNormalExp == -1022

\* Natural numbers of any size, as their limbs from the lowest up, the
\* highest not 0.  The carries are looked ahead, not handed on from limb
\* to limb, so that a number of many limbs takes no deep recursion.
Base == 1000
LimbDigits == 3

Limb(a, i) == IF i \in DOMAIN a THEN a[i] ELSE 0

\* a without its 0s at the upper end.
Trimmed(a) == SubSeq(a, 1, Max({0} \cup {i \in DOMAIN a : a[i] # 0}))

\* The same number with every column below Base, for columns below
\* 2 * Base - 1: a column takes a carry when one below it overflows and
\* all between them are full.
Carried(cols) ==
    Trimmed([i \in 1..(Len(cols) + 1) |->
                (Limb(cols, i)
                 + (IF \E j \in 1..(i - 1) :
                          /\ cols[j] >= Base
                          /\ \A k \in (j + 1)..(i - 1) : cols[k] = Base - 1
                    THEN 1 ELSE 0)) % Base])

\* The same number with every column's overflow moved one column up.
Spilled(cols) ==
    [i \in 1..(Len(cols) + 1) |->
        (Limb(cols, i) % Base) + (Limb(cols, i - 1) \div Base)]

\* a + b.
Plus(a, b) ==
    Carried([i \in 1..(IF Len(a) > Len(b) THEN Len(a) ELSE Len(b)) |->
                Limb(a, i) + Limb(b, i)])

\* The number whose columns are diff, each above -Base: a column lends
\* one when one below it is negative and all between them are 0.
Borrowed(diff) ==
    Trimmed([i \in DOMAIN diff |->
                (diff[i] + Base
                 - (IF \E j \in 1..(i - 1) :
                          /\ diff[j] < 0
                          /\ \A k \in (j + 1)..(i - 1) : diff[k] = 0
                    THEN 1 ELSE 0)) % Base])

\* a - b, for a >= b.
Minus(a, b) == Borrowed([i \in DOMAIN a |-> a[i] - Limb(b, i)])

\* a < b.
Less(a, b) ==
    IF Len(a) # Len(b) THEN Len(a) < Len(b)
    ELSE \E i \in DOMAIN a :
            a[i] < b[i] /\ \A j \in (i + 1)..Len(a) : a[j] = b[j]

RECURSIVE Sum(_, _, _)
\* f[lo] + ... + f[hi].
Sum(f, lo, hi) ==
    IF lo > hi THEN 0
    ELSE IF lo = hi THEN f[lo]
    ELSE Sum(f, lo, (lo + hi) \div 2) + Sum(f, ((lo + hi) \div 2) + 1, hi)

\* The column k of a * b: the products a[i] * b[k + 1 - i], i in lo..hi.
Column(a, b, k, lo, hi) == Sum([i \in lo..hi |-> a[i] * b[k + 1 - i]], lo, hi)

\* a * b, where one of the two has fewer than 2000 limbs.
Times(a, b) ==
    IF a = <<>> \/ b = <<>> THEN <<>>
    ELSE Carried(Spilled(Spilled(Spilled(
            [k \in 1..(Len(a) + Len(b) - 1) |->
                Column(a, b, k,
                       IF k > Len(b) THEN k + 1 - Len(b) ELSE 1,
                       IF k < Len(a) THEN k ELSE Len(a))]))))

Twice(a) == Plus(a, a)
Square(a) == Times(a, a)

RECURSIVE Pow2(_)
\* 2^n.
Pow2(n) ==
    IF n < 10 THEN <<2 ^ n>>
    ELSE Times(Square(Pow2(n \div 2)), <<2 ^ (n % 2)>>)

\* a * 10^n, for a > 0.
TimesPow10(a, n) ==
    [i \in 1..(n \div LimbDigits) |-> 0] \o Times(a, <<10 ^ (n % LimbDigits)>>)

\* The decimal digits float() reads: the ASCII ones, and those of every
\* other script.  DigitZeros are the code points of the other digits zero;
\* the nine digits that follow each one are its 1 to 9.
Digits == <<"0", "1", "2", "3", "4", "5", "6", "7", "8", "9">>
DigitZeros ==
    {1632, 1776, 1984, 2406, 2534, 2662, 2790, 2918, 3046, 3174, 3302,
     3430, 3558, 3664, 3792, 3872, 4160, 4240, 6112, 6160, 6470, 6608,
     6784, 6800, 6992, 7088, 7232, 7248, 42528, 43216, 43264, 43472, 43504,
     43600, 44016, 65296, 66720, 68912, 69734, 69872, 69942, 70096, 70384,
     70736, 70864, 71248, 71360, 71472, 71904, 72016, 72784, 73040, 73120,
     92768, 92864, 93008, 120782, 120792, 120802, 120812, 120822, 123200,
     123632, 125264, 130032}

HexDigits == <<"0", "1", "2", "3", "4", "5", "6", "7", "8", "9",
               "A", "B", "C", "D", "E", "F">>

RECURSIVE Hex(_, _)
\* The hexadecimal numeral of n, of `width` digits at least.
Hex(n, width) ==
    IF n = 0 /\ width <= 0 THEN ""
    ELSE Hex(n \div 16, width - 1) \o HexDigits[(n % 16) + 1]

\* The character with the code point n, as a str holds it.
Chr(n) == "U+" \o Hex(n, 4)

\* Every decimal digit with its value.
DecimalDigits ==
    {<<Digits[d + 1], d>> : d \in 0..9}
    \cup {<<Chr(z + d), d>> : z \in DigitZeros, d \in 0..9}

\* The ASCII digits are looked for first.
IsDigit(c) ==
    \/ \E d \in DOMAIN Digits : Digits[d] = c
    \/ \E p \in DecimalDigits : p[1] = c
DigitVal(c) ==
    IF \E d \in DOMAIN Digits : Digits[d] = c
    THEN (CHOOSE d \in DOMAIN Digits : Digits[d] = c) - 1
    ELSE (CHOOSE p \in DecimalDigits : p[1] = c)[2]

\* The characters float() strips from both ends of a str: the ASCII white
\* space and the white space of Unicode beyond ASCII.
Whitespace ==
    {" ", "\t", "\n", "\r", "\f"}
    \cup {Chr(n) : n \in {11, 133, 160, 5760} \cup (8192..8202)
                          \cup {8232, 8233, 8239, 8287, 12288}}

\* s from the first character that is no white space to the last one,
\* which is looked for from the end of s.
Strip(s) ==
    SubSeq(s, Min({Len(s) + 1} \cup {i \in DOMAIN s : s[i] \notin Whitespace}),
           Len(s) + 1
           - Min({Len(s) + 1}
                 \cup {i \in DOMAIN s : s[Len(s) + 1 - i] \notin Whitespace}))

Lower(c) ==
    CASE c = "I" -> "i" [] c = "N" -> "n" [] c = "F" -> "f"
      [] c = "T" -> "t" [] c = "Y" -> "y" [] c = "A" -> "a"
      [] c = "E" -> "e" [] OTHER -> c

RECURSIVE Small(_)
\* The number written by a few digits, as an integer.
Small(ds) ==
    IF ds = <<>> THEN 0
    ELSE 10 * Small(SubSeq(ds, 1, Len(ds) - 1)) + DigitVal(ds[Len(ds)])

\* The number whose decimal digits have the values v: a limb from every
\* LimbDigits of them, counted from the last.
Grouped(v) ==
    Trimmed([i \in 1..((Len(v) + LimbDigits - 1) \div LimbDigits) |->
                Limb(v, Len(v) + 1 - (i * LimbDigits - 2))
                + 10 * Limb(v, Len(v) + 1 - (i * LimbDigits - 1))
                + 100 * Limb(v, Len(v) + 1 - i * LimbDigits)])

\* The number written by a sequence of digits.
Number(ds) == Grouped([i \in DOMAIN ds |-> DigitVal(ds[i])])

\* Digits with single underscores between them: "1_000", not "_1", "1__0".
DigitGroup(s) ==
    /\ s # <<>>
    /\ \A i \in DOMAIN s : IsDigit(s[i]) \/ (s[i] = "_" /\ i \notin {1, Len(s)})
    /\ \A i \in 1..(Len(s) - 1) : ~(s[i] = "_" /\ s[i + 1] = "_")

\* ds from its first digit that is no zero on.
DropLeadingZeros(ds) ==
    SubSeq(ds, Min({Len(ds) + 1}
                   \cup {i \in DOMAIN ds : DigitVal(ds[i]) # 0}),
           Len(ds))

\* The finite float (+/-) bits * 2^exp in its one form: the bits without
\* the 0s at their end.
Finite(neg, bits, exp) ==
    IF Trimmed(bits) = <<>> THEN PyZero
    ELSE [t |-> "float", neg |-> neg, bits |-> Trimmed(bits),
          exp |-> exp + Len(bits) - Len(Trimmed(bits))]

RECURSIVE ScaledUp(_)
\* The same f.num / f.den * 2^f.e with num / den 1 at least.
ScaledUp(f) ==
    IF ~Less(f.num, f.den) THEN f
    ELSE ScaledUp([num |-> Twice(f.num), den |-> f.den, e |-> f.e - 1])

RECURSIVE ScaledDown(_)
\* The same f.num / f.den * 2^f.e with num / den below 2.
ScaledDown(f) ==
    IF Less(f.num, Twice(f.den)) THEN f
    ELSE ScaledDown([num |-> f.num, den |-> Twice(f.den), e |-> f.e + 1])

\* num / den as (num / den / 2^from) * 2^from, p being 2^|from|.
Scaled(num, den, from, p) ==
    [num |-> IF from < 0 THEN Times(num, p) ELSE num,
     den |-> IF from > 0 THEN Times(den, p) ELSE den,
     e |-> from]

\* The bits of the quotient worked out in one step.
Step == 8

RECURSIVE Digit(_, _, _, _)
\* The largest d with d * den <= high among sofar .. sofar + 2^w - 1.
Digit(high, den, w, sofar) ==
    IF w = 0 THEN sofar
    ELSE Digit(high, den, w - 1,
               IF Less(high, Times(den, <<sofar + 2 ^ (w - 1)>>)) THEN sofar
               ELSE sofar + 2 ^ (w - 1))

\* The w bits that write d, before the bits of q.
Joined(d, w, q) ==
    [bits |-> [i \in 1..w |-> (d \div 2 ^ (w - i)) % 2] \o q.bits,
     rest |-> q.rest]

RECURSIVE Quotient(_, _, _)
RECURSIVE QuotientStep(_, _, _, _)
RECURSIVE QuotientFrom(_, _, _, _, _)

\* The first n bits of rest / den, which is below 2, and twice what is
\* left; up to Step bits at a time.
Quotient(rest, den, n) ==
    IF n = 0 THEN [bits |-> <<>>, rest |-> rest]
    ELSE QuotientStep(rest, den, n, IF n < Step THEN n ELSE Step)

\* The next w of the n bits: they write the digit d that fits into
\* rest * 2^(w - 1).
QuotientStep(rest, den, n, w) ==
    QuotientFrom(Times(rest, <<2 ^ (w - 1)>>), den, n, w,
                 Digit(Times(rest, <<2 ^ (w - 1)>>), den, w, 0))

\* The bits of d, and those of twice what d leaves of high.
QuotientFrom(high, den, n, w, d) ==
    Joined(d, w, Quotient(Twice(Minus(high, Times(den, <<d>>))), den, n - w))

\* The numeral of the integer after the one of bits, whose last 0 is at
\* `last`: that 0 becomes 1, the 1s after it 0.
Carry(bits, last) ==
    (IF last = 0 THEN <<1>> ELSE SubSeq(bits, 1, last - 1) \o <<1>>)
    \o [i \in 1..(Len(bits) - last) |-> 0]

Successor(bits) == Carry(bits, Max({0} \cup {i \in DOMAIN bits : bits[i] = 0}))

\* The bits q.bits of a quotient rounded to the nearest, ties to even: up
\* when what is left is more than half of the last bit's worth, or half of
\* it with the last bit 1.
Round(q, den) ==
    IF \/ Less(den, q.rest)
       \/ q.rest = den /\ q.bits # <<>> /\ q.bits[Len(q.bits)] = 1
    THEN Successor(q.bits) ELSE q.bits

\* The float of the n rounded bits of a quotient in [2^e, 2^(e + 1)):
\* infinity from 2^(MaxExp + 1) on.
Packed(neg, e, n, bits) ==
    IF e > MaxExp \/ (e = MaxExp /\ Len(bits) > Precision) THEN PyInf(neg)
    ELSE Finite(neg, bits, e - n + 1)

\* The float nearest to f.num / f.den * 2^f.e, the quotient in [1, 2),
\* from its first n bits.
Kept(neg, f, n) ==
    IF n < 0 THEN PyZero
    ELSE Packed(neg, f.e, n, Round(Quotient(f.num, f.den, n), f.den))

\* The double nearest to num / den (num > 0), ties going to the even one,
\* where 2^from is below num / den and near it: Precision bits of the
\* quotient, fewer below the normal range.
NearestTo(neg, f) ==
    Kept(neg, f, IF f.e >= MinNormalExp THEN Precision
                 ELSE f.e - MinNormalExp + Precision)

Nearest(neg, num, den, from) ==
    NearestTo(neg, ScaledDown(ScaledUp(
        Scaled(num, den, from, Pow2(IF from < 0 THEN 0 - from ELSE from)))))

\* The float of the decimal literal with the significant digits sig,
\* `frac` of its digits after the point, and the exponent ex: the first
\* digit of sig is that of 10^(point - 1).  A literal of 10^309 or more is
\* past every double, one below 10^-324 rounds to zero, and any other is
\* 2^(3.3219 * (point - 1)) at least.
Placed(neg, sig, frac, ex, point) ==
    IF sig = <<>> \/ point < -323 THEN PyZero
    ELSE IF point > 309 THEN PyInf(neg)
    ELSE Nearest(neg,
                 TimesPow10(Number(sig), IF ex >= frac THEN ex - frac ELSE 0),
                 TimesPow10(<<1>>, IF ex >= frac THEN 0 ELSE frac - ex),
                 (((point - 1) * 33219) \div 10000) - 1)

\* The first 800 of the significant digits sig, and one more that tells
\* whether any later one is no zero.  The doubles and the points halfway
\* between two of them have 768 significant digits at most, hence the
\* nearest double of the shortened number is that of the whole one.
Shortened(sig) ==
    IF Len(sig) <= 800 THEN sig
    ELSE SubSeq(sig, 1, 800)
         \o <<IF \A i \in 801..Len(sig) : DigitVal(sig[i]) = 0 THEN "0"
              ELSE "1">>

\* The float of the decimal literal with the digits ds (all of the
\* mantissa, the point taken out), `frac` of them after the point, and the
\* exponent ex.
Decimal(neg, ds, frac, ex) ==
    Placed(neg, Shortened(DropLeadingZeros(ds)), frac,
           ex + Len(DropLeadingZeros(ds))
              - Len(Shortened(DropLeadingZeros(ds))),
           Len(DropLeadingZeros(ds)) - frac + ex)

RECURSIVE Numeral(_)
\* The decimal digits of n >= 0.
Numeral(n) ==
    IF n < 10 THEN <<Digits[n + 1]>>
    ELSE Numeral(n \div 10) \o <<Digits[(n % 10) + 1]>>

\* The int n.
PyInt(n) == PyLong(n < 0, Numeral(IF n < 0 THEN 0 - n ELSE n))

Failed == [ok |-> FALSE, value |-> PyNone]
Done(v) == [ok |-> TRUE, value |-> v]

\* The exponent written by the digits ds, no 0 in front, as float() reads
\* it: as written when it has nine digits at most, and 1100000000 else.
Exponent(exneg, ds) ==
    (IF exneg THEN -1 ELSE 1)
    * (IF Len(ds) > 9 THEN 1100000000 ELSE Small(ds))

\* float(s) of the digits before and after the point of s, and of its
\* exponent when it has one.  A numeral of more than 10^9 digits, the
\* zeros in front not counted, or of more than 10^9 digits after the
\* point is refused as one that is no number is.
FloatOfDigits(neg, int, fr, hasexp, exneg, exd) ==
    IF \/ hasexp /\ ~DigitGroup(exd)
       \/ ~(int = <<>> \/ DigitGroup(int))
       \/ ~(fr = <<>> \/ DigitGroup(fr))
       \/ (int = <<>> /\ fr = <<>>)
       \/ Len(DropLeadingZeros(SelectSeq(int \o fr, IsDigit))) > 1000000000
       \/ Len(SelectSeq(fr, IsDigit)) > 1000000000
    THEN Failed
    ELSE Done(Decimal(neg, SelectSeq(int \o fr, IsDigit),
                      Len(SelectSeq(fr, IsDigit)),
                      IF hasexp
                      THEN Exponent(exneg,
                                    DropLeadingZeros(SelectSeq(exd, IsDigit)))
                      ELSE 0))

\* float(s) of the mantissa of s, whose point is at `dot` (past its end
\* if it has none), and of what follows its e or E.
FloatOfParts(neg, mant, dot, hasexp, exs) ==
    FloatOfDigits(neg, SubSeq(mant, 1, dot - 1),
                  SubSeq(mant, dot + 1, Len(mant)),
                  hasexp, exs # <<>> /\ Head(exs) = "-",
                  IF exs # <<>> /\ Head(exs) \in {"+", "-"} THEN Tail(exs)
                  ELSE exs)

\* float(s) of b, a str without its white space and sign, and low, the
\* same in lower case: inf, infinity or nan, or a mantissa and an optional
\* exponent after its first e or E, which is at e (past its end if it has
\* none).
FloatOfLower(neg, b, low, e) ==
    IF low \in {<<"i", "n", "f">>, <<"i", "n", "f", "i", "n", "i", "t", "y">>}
    THEN Done(PyInf(neg))
    ELSE IF low = <<"n", "a", "n">> THEN Done(PyNan)
    ELSE FloatOfParts(neg, SubSeq(b, 1, e - 1),
                      Min({e} \cup {i \in 1..(e - 1) : b[i] = "."}),
                      e <= Len(b), SubSeq(b, e + 1, Len(b)))

FloatOfBody(neg, b) ==
    FloatOfLower(neg, b, [i \in DOMAIN b |-> Lower(b[i])],
                 Min({Len(b) + 1} \cup {i \in DOMAIN b : Lower(b[i]) = "e"}))

\* float(s) of a str without its white space.
FloatOfStr(s) ==
    FloatOfBody(s # <<>> /\ Head(s) = "-",
                IF s # <<>> /\ Head(s) \in {"+", "-"} THEN Tail(s) ELSE s)

\* What float() reads of a value that is no float: a str without its white
\* space, the numeral of an int, and of a bool the numeral of its int.
Text(v) ==
    IF v.t = "str" THEN Strip(v.s)
    ELSE IF v.t = "bool" THEN Numeral(IF v.b THEN 1 ELSE 0)
    ELSE (IF v.neg THEN <<"-">> ELSE <<>>) \o v.digits

\* float() of a value of the type t, r being the float nearest to it: a
\* str past every double is inf, an int past every double raises
\* OverflowError.
Converted(t, r) ==
    IF t = "int" /\ r.ok /\ "special" \in DOMAIN r.value THEN Failed ELSE r

\* float(v): ok is FALSE when it raises (None, a str that is no number, an
\* int past every double).  The float of an int is the nearest one, as
\* that of its numeral is.
FloatOf(v) ==
    IF v.t = "float" THEN Done(v)
    ELSE IF v.t \in {"int", "bool", "str"}
    THEN Converted(v.t, FloatOfStr(Text(v)))
    ELSE Failed

\* bool(v) as `if v` and `x and v` take it.
Truthy(v) ==
    CASE v.t = "None" -> FALSE
      [] v.t = "bool" -> v.b
      [] v.t = "int" -> v.digits # <<"0">>
      [] v.t = "str" -> v.s # <<>>
      [] v.t = "float" -> ("special" \in DOMAIN v) \/ v.bits # <<>>

(***************************************************************************)
(* The store behind the SDK: product records with their variants and       *)
(* images.                                                                 *)
(***************************************************************************)
\* The variants of the store.  price and compare_at_price are what the
\* store's JSON holds: a str or a number, and None for no compare-at price.
\* The price of SKU-12 is the int 2 * 10^308, which is past every double.
VariantPool ==
    {[price |-> PyStr(<<"1", "9", ".", "9", "9">>), compare_at_price |-> PyNone,
      sku |-> "SKU-1", inventory_quantity |-> 3],
     [price |-> PyStr(<<"5">>),
      compare_at_price |-> PyStr(<<"7", ".", "5", "0">>),
      sku |-> "SKU-2", inventory_quantity |-> 0],
     [price |-> PyStr(<<"0", ".", "0", "0">>), compare_at_price |-> PyStr(<<>>),
      sku |-> "", inventory_quantity |-> 12],
     [price |-> PyStr(<<"n", "/", "a">>), compare_at_price |-> PyNone,
      sku |-> "SKU-4", inventory_quantity |-> 1],
     [price |-> PyStr(<<"-", "1", ".", "5", "0">>),
      compare_at_price |-> Finite(FALSE, <<1, 1, 1, 1>>, -1),
      sku |-> "SKU-5", inventory_quantity |-> 2],
     [price |-> PyStr(<<" ", "1", "e", "3", "\n">>),
      compare_at_price |-> PyInt(0),
      sku |-> "SKU-6", inventory_quantity |-> 4],
     [price |-> Finite(FALSE, <<1, 0, 0, 1, 1, 1>>, -1),
      compare_at_price |-> PyZero,
      sku |-> "SKU-7", inventory_quantity |-> 5],
     [price |-> PyInt(12),
      compare_at_price |-> PyStr(<<"1", "_", "0", "0", "0">>),
      sku |-> "SKU-8", inventory_quantity |-> 6],
     [price |-> PyStr(<<"i", "n", "f">>),
      compare_at_price |-> PyStr(<<"U+0663">>),
      sku |-> "SKU-9", inventory_quantity |-> 7],
     [price |-> PyStr(<<"5">>), compare_at_price |-> PyStr(<<"n", "/", "a">>),
      sku |-> "SKU-10", inventory_quantity |-> 8],
     [price |-> PyNone, compare_at_price |-> PyInt(9),
      sku |-> "SKU-11", inventory_quantity |-> 9],
     [price |-> PyLong(FALSE, [i \in 1..309 |-> IF i = 1 THEN "2" ELSE "0"]),
      compare_at_price |-> PyNone,
      sku |-> "SKU-12", inventory_quantity |-> 10],
     [price |-> PyStr(<<"0", ".", "0", "0", "0", "2", "e", "0", "0", "0", "0",
                        "0", "0", "0", "0", "0", "4">>),
      compare_at_price |-> PyStr(<<"1", "e", "-", "1", "2", "3", "4", "5",
                                   "6", "7", "8", "9", "0">>),
      sku |-> "SKU-13", inventory_quantity |-> 11]}

\* float(v), with the floats of the store's values worked out once.
StorePrices ==
    {x.price : x \in VariantPool} \cup {x.compare_at_price : x \in VariantPool}
StoreFloats == [v \in StorePrices |-> FloatOf(v)]
Float(v) == IF v \in StorePrices THEN StoreFloats[v] ELSE FloatOf(v)

\* The variants that follow the first one of a record.
TailPool == {x \in VariantPool : x.sku \in {"SKU-1", "SKU-2"}}

ImagePool == {[src |-> PyStr("a.png")], [src |-> PyStr("b.png")]}

SeqsUpTo(S, n) == UNION {[1..k -> S] : k \in 0..n}

Record(id, handle, variants, images) ==
    [id |-> id, title |-> "Belt", handle |-> handle, variants |-> variants,
     images |-> images, product_type |-> "Wellness", vendor |-> "Evaly",
     tags |-> "red, light", status |-> "active",
     created_at |-> "2024-01-05"]

Handles == <<<<"b", "e", "l", "t">>, <<"c", "a", "s", "e">>>>

\* The records asked for one at a time: the first one with every first
\* variant and every run of variants after it, and both with every run of
\* images on a record without variants and on one with two.
Products ==
    LET v == CHOOSE x \in VariantPool : x.sku = "SKU-1"
        w == CHOOSE x \in VariantPool : x.sku = "SKU-2"
        runs == {<<>>} \cup {<<first>> \o rest :
                                 first \in VariantPool,
                                 rest \in SeqsUpTo(TailPool, MaxVariants - 1)}
        shapes == {<<>>, <<w, v>>} \X SeqsUpTo(ImagePool, MaxImages)
    IN  {Record(1, Handles[1], run, <<>>) : run \in runs}
        \cup {Record(id, Handles[id], sh[1], sh[2]) :
                 id \in DOMAIN Handles, sh \in shapes}

\* The records the listings are made of: no variant and no image; two
\* variants, the prices of the first a signed str and a number, and an
\* image; a first variant whose compare-at price is the int 0; a first
\* variant whose price is no number, and one whose price is an int past
\* every double.
ListPool ==
    LET v == CHOOSE x \in VariantPool : x.sku = "SKU-1"
        bad == CHOOSE x \in VariantPool : x.sku = "SKU-4"
        num == CHOOSE x \in VariantPool : x.sku = "SKU-5"
        zero == CHOOSE x \in VariantPool : x.sku = "SKU-6"
        big == CHOOSE x \in VariantPool : x.sku = "SKU-12"
        img == CHOOSE x \in ImagePool : x.src = PyStr("a.png")
    IN  {Record(1, Handles[1], <<>>, <<>>),
         Record(2, Handles[2], <<num, v>>, <<img>>),
         Record(2, Handles[2], <<zero>>, <<>>),
         Record(1, Handles[1], <<bad>>, <<img>>),
         Record(2, Handles[2], <<big, v>>, <<>>)}

Listings == SeqsUpTo(ListPool, MaxProducts)

ShopRecord ==
    [name |-> "My Store", email |-> "owner@example.com",
     domain |-> "mystore.com", currency |-> "USD", timezone |-> "UTC",
     plan_name |-> "basic", id |-> 77]

(***************************************************************************)
(* src/shopify_connector.py: the field mappings                            *)
(***************************************************************************)
RetNone == [t |-> "None"]
RetBool(b) == [t |-> "bool", v |-> b]
RetList(l) == [t |-> "list", v |-> l]
RetDict(d) == [t |-> "dict", v |-> d]
NoRet == [t |-> "none"]

\* The dict of get_products and get_product_by_id for the record p, from
\* its representative variant (when it has one) and what float(...) made
\* of the two prices; ok is FALSE when one of them raised.
ProductDict(p, url, has, variant, price, compare_at_price) ==
    [ok |-> price.ok /\ compare_at_price.ok,
     value |->
        [id |-> p.id, name |-> p.title, price |-> price.value,
         compare_at_price |-> compare_at_price.value,
         sku |-> IF has THEN variant.sku ELSE "",
         inventory_quantity |-> IF has THEN variant.inventory_quantity ELSE 0,
         product_type |-> p.product_type, vendor |-> p.vendor,
         tags |-> p.tags, status |-> p.status, created_at |-> p.created_at,
         image_url |-> IF p.images # <<>> THEN p.images[1].src ELSE PyNone,
         variants_count |-> Len(p.variants), handle |-> p.handle,
         url |-> Https \o url \o ProductsPath \o p.handle]]

\* The floats of the prices of the representative variant: 0.0 for the
\* price of a record without variants, None for a compare-at price that is
\* missing or falsy.
VariantData(p, url, has, variant) ==
    ProductDict(p, url, has, variant,
                IF has THEN Float(variant.price) ELSE Done(PyZero),
                IF has /\ Truthy(variant.compare_at_price)
                THEN Float(variant.compare_at_price) ELSE Done(PyNone))

\* The dict of get_products and get_product_by_id for one record, with the
\* last variant taken as the representative one.
ProductDataLastVariant(p, url) ==
    VariantData(p, url, p.variants # <<>>,
                IF p.variants # <<>> THEN p.variants[Len(p.variants)]
                ELSE PyNone)

\* The dict of get_products and get_product_by_id for one record; ok is
\* FALSE when a float(...) in it raises.
ProductData(p, url) ==
    VariantData(p, url, p.variants # <<>>,
                IF p.variants # <<>> THEN p.variants[1] ELSE PyNone)

\* The dict of search_products for the record p, from its first variant
\* and what float(...) made of its price.
SearchDict(p, has, variant, price) ==
    [ok |-> price.ok,
     value |->
        [id |-> p.id, name |-> p.title, price |-> price.value,
         sku |-> IF has THEN variant.sku ELSE "",
         vendor |-> p.vendor, status |-> p.status]]

SearchVariant(p, has, variant) ==
    SearchDict(p, has, variant,
               IF has THEN Float(variant.price) ELSE Done(PyZero))

\* The dict of search_products for one record.
SearchData(p) ==
    SearchVariant(p, p.variants # <<>>,
                  IF p.variants # <<>> THEN p.variants[1] ELSE PyNone)

\* The dict of get_shop_info.
ShopInfo(shop) ==
    [name |-> shop.name, email |-> shop.email, domain |-> shop.domain,
     currency |-> shop.currency, timezone |-> shop.timezone,
     plan_name |-> shop.plan_name]

(***************************************************************************)
(* src/shopify_connector.py: the operations.  Each takes what the SDK did  *)
(* (reply.kind = "raised" when it raised) and gives what the operation     *)
(* returns, and whether an exception leaves it.                            *)
(***************************************************************************)
Returns(v) == [ret |-> v, propagated |-> FALSE]
Raises == [ret |-> NoRet, propagated |-> TRUE]

\* What a loop over the records returns: the dicts of all of them, or
\* `failed` when the mapping of one of them raised.
Listed(mapped, failed) ==
    IF \E i \in DOMAIN mapped : ~mapped[i].ok THEN failed
    ELSE Returns(RetList([i \in DOMAIN mapped |-> mapped[i].value]))

\* get_products without its except clause.
GetProductsUncaught(reply, url) ==
    IF reply.kind = "raised" THEN Raises
    ELSE Listed([i \in DOMAIN reply.records |->
                    ProductData(reply.records[i], url)],
                Raises)

\* get_products: the try block and its except clause.
GetProductsCall(reply, url) ==
    IF reply.kind = "raised" THEN Returns(RetList(<<>>))
    ELSE Listed([i \in DOMAIN reply.records |->
                    ProductData(reply.records[i], url)],
                Returns(RetList(<<>>)))

\* What get_product_by_id returns of the dict of the record.
Found(mapped) ==
    IF mapped.ok THEN Returns(RetDict(mapped.value)) ELSE Returns(RetNone)

\* get_product_by_id.
GetProductByIdCall(reply, url) ==
    IF reply.kind = "raised" THEN Returns(RetNone)
    ELSE Found(ProductData(reply.record, url))

\* search_products.
SearchProductsCall(reply) ==
    IF reply.kind = "raised" THEN Returns(RetList(<<>>))
    ELSE Listed([i \in DOMAIN reply.records |-> SearchData(reply.records[i])],
                Returns(RetList(<<>>)))

\* get_shop_info.
GetShopInfoCall(reply) ==
    IF reply.kind = "raised" THEN Returns(RetNone)
    ELSE Returns(RetDict(ShopInfo(reply.shop)))

NoSession == [open |-> FALSE]
ApiVersion == <<"2", "0", "2", "4", "-", "0", "1">>

\* shopify.Session(shop_url, api_version, access_token).
NewSession(url, token) ==
    [open |-> TRUE, shop |-> url, version |-> ApiVersion, token |-> token]

NoReply == [kind |-> "none"]
Raised == [kind |-> "raised"]

AppInit ==
    /\ appOp = "none"
    /\ provider = "none"
    /\ api_key = ""
    /\ product = NoProduct
    /\ response = NoResponse
    /\ llm = NoLlm
    /\ sent = <<>>
    /\ parsed = <<>>
    /\ outcome = "none"
    /\ result = NoResult
    /\ view = <<>>

CatInit ==
    /\ constructed = FALSE
    /\ raw_url = <<>>
    /\ shop_url = <<>>
    /\ session = NoSession
    /\ active = NoSession
    /\ opener = "none"
    /\ access_token = ""
    /\ sdkReply = NoReply
    /\ catOp = "none"
    /\ ret = NoRet
    /\ propagated = FALSE

Init == AppInit /\ CatInit

\* One press of the run-analysis button: the `if start_btn:` block.
StartBtn ==
    /\ appOp = "none"
    /\ \E model_choice \in ModelChoiceSet, user_api_key \in Keys,
          input_data \in InputData, reply \in Replies :
        /\ appOp' = "start_btn"
        /\ provider' = model_choice
        /\ api_key' = user_api_key
        /\ product' = input_data
        /\ IF ~KeyGiven(user_api_key)
           THEN /\ view' = KeyMissing
                /\ response' = NoResponse
                /\ llm' = NoLlm
                /\ sent' = <<>>
                /\ parsed' = <<>>
                /\ outcome' = "none"
                /\ result' = NoResult
           ELSE LET a == AnalyzeProductCall(input_data, user_api_key,
                                            model_choice, reply)
                IN  /\ response' = reply
                    /\ llm' = a.llm
                    /\ sent' = a.sent
                    /\ parsed' = a.parsed
                    /\ outcome' = a.outcome
                    /\ result' = a.result
                    /\ view' = IF a.outcome = "raised" THEN Failure
                               ELSE Render(a.result)
        /\ UNCHANGED catVars

\* A call of analyze_product by any caller of the module.
AnalyzeProduct ==
    /\ appOp = "none"
    /\ \E model_provider \in Providers, key \in Keys, input_data \in InputData :
      \E reply \in Answers(key) :
        LET a == AnalyzeProductCall(input_data, key, model_provider, reply)
        IN  /\ appOp' = "analyze_product"
            /\ provider' = model_provider
            /\ api_key' = key
            /\ product' = input_data
            /\ response' = reply
            /\ llm' = a.llm
            /\ sent' = a.sent
            /\ parsed' = a.parsed
            /\ outcome' = a.outcome
            /\ result' = a.result
            /\ view' = <<>>
            /\ UNCHANGED catVars

\* The next run of the script: Streamlit runs app.py again from the top on
\* the next interaction, with start_btn False and an empty page, and the
\* engine of the last run is gone.
Rerun ==
    /\ appOp # "none"
    /\ appOp' = "none"
    /\ provider' = "none"
    /\ api_key' = ""
    /\ product' = NoProduct
    /\ response' = NoResponse
    /\ llm' = NoLlm
    /\ sent' = <<>>
    /\ parsed' = <<>>
    /\ outcome' = "none"
    /\ result' = NoResult
    /\ view' = <<>>
    /\ UNCHANGED catVars

Next == StartBtn \/ AnalyzeProduct \/ Rerun

Spec == Init /\ [][Next]_vars

(***************************************************************************)
(* The connector's operations as actions.                                  *)
(***************************************************************************)
Name == <<"m", "y", "s", "t", "o", "r", "e">>
Tokens == {"shpat_1"}

\* The shop_url arguments of the catalog runs.
ShopArgs ==
    {Name, Https \o Name \o Suffix,
     <<"s", "h", "o", "p", ".", "e", "x", ".", "c", "o", "m">>}

\* The shop_url arguments of the normalization runs: up to MaxPieces of
\* these pieces, one after the other.
Pieces ==
    {Https, Http, Name, Suffix, <<".">>, <<"h">>,
     <<"t", "t", "p", "s", ":", "/", "/">>, <<"/">>, <<"c", "o", "m">>}

RECURSIVE Concat(_)
Concat(ps) == IF ps = <<>> THEN <<>> ELSE Head(ps) \o Concat(Tail(ps))

RawUrls == {Concat(ps) : ps \in SeqsUpTo(Pieces, MaxPieces)}

\* ShopifyConnector(shop_url, access_token): the connector at hand from
\* now on.  A session the one before it left activated stays activated.
Construct(args) ==
    \E url \in args, token \in Tokens :
        /\ constructed' = TRUE
        /\ raw_url' = url
        /\ shop_url' = Normalize(url)
        /\ access_token' = token
        /\ session' = NoSession
        /\ opener' = IF opener = "none" THEN "none" ELSE "earlier"
        /\ sdkReply' = NoReply
        /\ catOp' = "init"
        /\ ret' = NoRet
        /\ propagated' = FALSE
        /\ UNCHANGED <<active, appVars>>

\* A connector object is at hand: its methods can be called once it was
\* constructed, whatever was called since.
HasConnector == constructed

\* What the SDK may do when asked for `answers`: with no session activated
\* it raises; with one it raises or answers.
SdkReplies(answers) ==
    IF active = NoSession THEN {Raised} ELSE {Raised} \cup answers

\* connect(): the Session constructor raises, or Shop.current() raises after
\* the session was stored and activated, or all three calls succeed.
Connect ==
    /\ HasConnector
    /\ \E step \in {"Session", "Shop.current", "none"} :
        LET new == NewSession(shop_url, access_token)
        IN  /\ session' = IF step = "Session" THEN session ELSE new
            /\ active' = IF step = "Session" THEN active ELSE new
            /\ opener' = IF step = "Session" THEN opener ELSE "connector"
            /\ sdkReply' = IF step = "none"
                           THEN [kind |-> "shop", shop |-> ShopRecord]
                           ELSE Raised
            /\ ret' = RetBool(step = "none")
            /\ propagated' = FALSE
    /\ catOp' = "connect"
    /\ UNCHANGED <<constructed, raw_url, shop_url, access_token, appVars>>

Finish(op, reply, call) ==
    /\ catOp' = op
    /\ sdkReply' = reply
    /\ ret' = call.ret
    /\ propagated' = call.propagated
    /\ UNCHANGED <<constructed, raw_url, shop_url, access_token, session,
                   active, opener, appVars>>

\* get_products(limit).
GetProducts ==
    /\ HasConnector
    /\ \E limit \in 1..MaxProducts :
       \E reply \in SdkReplies({[kind |-> "records", records |-> l] :
                                   l \in {x \in Listings : Len(x) <= limit}}) :
          Finish("get_products", reply, GetProductsCall(reply, shop_url))

\* get_product_by_id(product_id).
GetProductById ==
    /\ HasConnector
    /\ \E product_id \in DOMAIN Handles :
       \E reply \in SdkReplies({[kind |-> "record", record |-> r] :
                                   r \in {x \in Products : x.id = product_id}}) :
          Finish("get_product_by_id", reply,
                 GetProductByIdCall(reply, shop_url))

\* search_products(query, limit).
SearchProducts ==
    /\ HasConnector
    /\ \E limit \in 1..MaxProducts :
       \E reply \in SdkReplies({[kind |-> "records", records |-> l] :
                                   l \in {x \in Listings : Len(x) <= limit}}) :
          Finish("search_products", reply, SearchProductsCall(reply))

\* get_shop_info().
GetShopInfo ==
    /\ HasConnector
    /\ \E reply \in SdkReplies({[kind |-> "shop", shop |-> ShopRecord]}) :
          Finish("get_shop_info", reply, GetShopInfoCall(reply))

\* disconnect().
Disconnect ==
    /\ HasConnector
    /\ catOp' = "disconnect"
    /\ IF session # NoSession
       THEN active' = NoSession /\ session' = NoSession /\ opener' = "none"
       ELSE UNCHANGED <<active, session, opener>>
    /\ sdkReply' = NoReply
    /\ ret' = RetNone
    /\ propagated' = FALSE
    /\ UNCHANGED <<constructed, raw_url, shop_url, access_token, appVars>>

RetPair(ok, msg) == [t |-> "tuple", ok |-> ok, msg |-> msg]

\* test_connection(shop_url, access_token), with a connector of its own;
\* the caller's connector, when there is one, is not touched.  `step` is
\* where the SDK raises: never, in the constructor of the connector (an
\* argument that is no str), in connect (the Session constructor, or
\* Shop.current() after the session was activated), or in the get_shop_info
\* that follows a successful connect.  The connector is gone when the
\* function returns; what it did to the session of the SDK is not: connect
\* activates its session in place of the one that was, and only the branch
\* of a successful connect calls disconnect(), which clears it.
TestConnection ==
    \E url \in ShopArgs, token \in Tokens,
       step \in {"init", "Session", "Shop.current", "get_shop_info", "none"} :
        LET new == NewSession(Normalize(url), token)
            connected == step \in {"get_shop_info", "none"}
            info == IF step = "none"
                    THEN GetShopInfoCall([kind |-> "shop",
                                          shop |-> ShopRecord]).ret
                    ELSE GetShopInfoCall(Raised).ret
        IN  /\ catOp' = "test_connection"
            /\ active' = IF step \in {"init", "Session"} THEN active
                          ELSE IF step = "Shop.current" THEN new
                          ELSE NoSession
            /\ opener' = IF step \in {"init", "Session"}
                          THEN (IF opener = "test_connection" THEN "earlier"
                                ELSE opener)
                          ELSE IF step = "Shop.current" THEN "test_connection"
                          ELSE "none"
            /\ sdkReply' = IF step = "none"
                           THEN [kind |-> "shop", shop |-> ShopRecord]
                           ELSE Raised
            /\ ret' = IF step = "init"
                      THEN RetPair(FALSE, "Connection error")
                      ELSE IF ~connected
                      THEN RetPair(FALSE, "Failed to connect")
                      ELSE IF info # RetNone
                      THEN RetPair(TRUE, <<"Connected to", info.v.name>>)
                      ELSE RetPair(TRUE, "Connection successful")
            /\ propagated' = FALSE
            /\ UNCHANGED <<constructed, raw_url, shop_url, access_token,
                           session, appVars>>

CatalogNext ==
    \/ Construct(ShopArgs)
    \/ Connect
    \/ GetProducts
    \/ GetProductById
    \/ SearchProducts
    \/ GetShopInfo
    \/ Disconnect
    \/ TestConnection

\* The connector with the store behind it.
CatalogSpec == Init /\ [][CatalogNext]_vars

NormalizeNext == catOp = "none" /\ Construct(RawUrls)

\* The constructor alone, on every argument of RawUrls.
NormalizeSpec == Init /\ [][NormalizeNext]_vars

(***************************************************************************)
(* Properties of src/app.py, checked under Spec.                           *)
(***************************************************************************)
Green == "#28a745"
Amber == "#ffc107"
Red == "#dc3545"

\* A result as the data model wants it: exactly the nine criteria, each
\* with an integer score in ScoreMin..ScoreMax.
WellFormedScores(scores) ==
    /\ DOMAIN scores = CriteriaSet
    /\ \A k \in CriteriaSet :
          /\ scores[k].score.t = "int"
          /\ scores[k].score.n \in ScoreMin..ScoreMax

Widgets(kind) == {i \in DOMAIN view : view[i].w = kind}

\* C1: with a supported provider and a non-empty credential, whenever
\* analyze_product returns (rather than raises), the scores of the result
\* have exactly the nine criterion keys, each with an integer score in 0..10.
C1_ReturnsCompleteOrRaises ==
    (appOp # "none" /\ provider \in ModelChoiceSet /\ api_key # ""
        /\ outcome = "returned")
    => WellFormedScores(result.scores)

\* The texts the parser is to reject.
MustReject(text) ==
    \/ text.kind = "empty"
    \/ /\ text.kind = "json"
       /\ \/ "verdict" \notin DOMAIN text.obj
          \/ /\ "scores" \in DOMAIN text.obj
             /\ \/ \E k \in CriteriaSet : k \notin DOMAIN text.obj.scores
                \/ \E k \in DOMAIN text.obj.scores :
                      text.obj.scores[k].score.t = "str"

\* C2: when the text handed to the parser is the empty string, a JSON object
\* without verdict, one whose scores lack a criterion, or one with a score
\* given as a string, run_analysis raises and returns no result.
C2_ParserRejectsMalformed ==
    \A i \in DOMAIN parsed : MustReject(parsed[i]) => outcome = "raised"

\* The whole result on the page: banner, nine metric/caption pairs, the plan.
CompleteView ==
    /\ Widgets("error") = {}
    /\ Cardinality(Widgets("banner")) = 1
    /\ {view[i].key : i \in Widgets("metric")} = CriteriaSet
    /\ {view[i].key : i \in Widgets("caption")} = CriteriaSet
    /\ Widgets("plan_item") # {}

\* Nothing of a result on the page.
OnlyErrorView ==
    /\ Widgets("error") # {}
    /\ \A i \in DOMAIN view : view[i].w \in {"error", "warning"}

\* C3: after one press of the button the page holds either the complete
\* result or nothing but the error message; an error never follows widgets
\* of a result.
C3_CompleteResultOrOnlyError ==
    appOp = "start_btn" => (CompleteView \/ OnlyErrorView)

C5_EmptyCredentialNeverCalls ==
    (appOp # "none" /\ api_key = "") =>
        (sent = <<>> /\ outcome # "returned")

\* C9: the banner is green for GREENLIGHT and GO, amber for FIX and red for
\* KILL.
C9_VerdictColour ==
    \A i \in Widgets("banner") :
        /\ view[i].verdict \in {"GREENLIGHT", "GO"} => view[i].color = Green
        /\ view[i].verdict = "FIX" => view[i].color = Amber
        /\ view[i].verdict = "KILL" => view[i].color = Red

C9_Witness ==
    \E i \in Widgets("banner") :
        view[i].verdict = "FIX" /\ view[i].color = Amber

\* C10: a press of the button with a credential sends the prompt exactly
\* once; the reply, when there is one, goes to the parser exactly once; and
\* a failure of either leaves one error message on the page.
C10_OneCallNoRetry ==
    (appOp = "start_btn" /\ api_key # "") =>
        /\ sent = <<FormatMessages(product, product.business_model,
                                   product.platform)>>
        /\ response.kind = "error" => parsed = <<>>
        /\ response.kind # "error" => parsed = <<response>>
        /\ outcome = "raised" =>
              (Cardinality(Widgets("error")) = 1 /\ result = NoResult)

C10_Witness ==
    /\ appOp = "start_btn"
    /\ api_key # ""
    /\ response.kind = "prose"
    /\ outcome = "raised"
    /\ Len(sent) = 1
    /\ Cardinality(Widgets("error")) = 1

(***************************************************************************)
(* Properties of src/shopify_connector.py.                                 *)
(***************************************************************************)
\* A host name: no character of a scheme or a path in it.
IsHost(s) == \A i \in DOMAIN s : s[i] \notin {":", "/"}
IsBareName(s) == s # <<>> /\ IsHost(s) /\ ~Has(s, ".")
Schemes == {Https, Http}
After(s, scheme) == SubSeq(s, Len(scheme) + 1, Len(s))

\* A shop identifier: a host name, with or without a scheme before it.
IsIdentifier(s) ==
    \/ IsHost(s)
    \/ \E scheme \in Schemes : StartsWith(s, scheme) /\ IsHost(After(s, scheme))

\* C6 (checked under NormalizeSpec): a bare shop name gets the suffix
\* .myshopify.com; a scheme followed by a host that ends in .myshopify.com
\* becomes that host, the suffix not doubled; and the shop_url kept for a
\* shop identifier is one that normalization leaves unchanged.
C6_ShopUrlNormalized ==
    catOp = "init" =>
        /\ IsBareName(raw_url) => shop_url = raw_url \o Suffix
        /\ \A scheme \in Schemes :
              (/\ StartsWith(raw_url, scheme)
               /\ IsHost(After(raw_url, scheme))
               /\ EndsWith(After(raw_url, scheme), Suffix))
              => shop_url = After(raw_url, scheme)
        /\ IsIdentifier(raw_url) => Normalize(shop_url) = shop_url

C6_Witness ==
    /\ catOp = "init"
    /\ raw_url = Http \o Name \o Suffix
    /\ shop_url = Name \o Suffix

\* The store's values that float() raises on: None, a str that is no
\* number, and the int 2 * 10^308, for which it raises OverflowError.
NoNumber ==
    {PyNone, PyStr(<<"n", "/", "a">>),
     PyLong(FALSE, [i \in 1..309 |-> IF i = 1 THEN "2" ELSE "0"])}

\* The first variant of the record p has a price that float() raises on.
Unpriced(p) == p.variants # <<>> /\ p.variants[1].price \in NoNumber

\* C7 (checked under CatalogSpec): no operation lets an exception out, and
\* when the SDK raised, get_products and search_products returned [],
\* get_product_by_id and get_shop_info returned None, connect returned False.
\* The same holds when the SDK returned records and the exception is that
\* of float() on a price: ValueError, TypeError or OverflowError.
C7_SdkErrorsSwallowed ==
    /\ ~propagated
    /\ sdkReply = Raised =>
          /\ catOp \in {"get_products", "search_products"} =>
                ret = RetList(<<>>)
          /\ catOp \in {"get_product_by_id", "get_shop_info"} =>
                ret = RetNone
          /\ catOp = "connect" => ret = RetBool(FALSE)
    /\ (catOp \in {"get_products", "search_products"}
           /\ sdkReply.kind = "records"
           /\ \E i \in DOMAIN sdkReply.records : Unpriced(sdkReply.records[i]))
       => ret = RetList(<<>>)
    /\ (catOp = "get_product_by_id" /\ sdkReply.kind = "record"
           /\ Unpriced(sdkReply.record))
       => ret = RetNone

C7_Witness ==
    /\ catOp = "get_products"
    /\ sdkReply = Raised
    /\ session # NoSession
    /\ active # NoSession
    /\ ret = RetList(<<>>)

\* The float that each value of the store stands for, as Python's float()
\* gives it: 19.99 is 0x13FD70A3D70A3D * 2^-48, and "1e-1234567890" is 0.0.
\* The values float() raises on, and the empty str, stand for none.
Worth ==
    [v \in {PyStr(<<"1", "9", ".", "9", "9">>)} |->
        [t |-> "float", neg |-> FALSE,
         bits |-> <<1, 0, 0, 1, 1, 1, 1, 1, 1, 1, 1, 0, 1, 0, 1, 1, 1, 0, 0,
                    0, 0, 1, 0, 1, 0, 0, 0, 1, 1, 1, 1, 0, 1, 0, 1, 1, 1, 0,
                    0, 0, 0, 1, 0, 1, 0, 0, 0, 1, 1, 1, 1, 0, 1>>,
         exp |-> -48]]
    @@ [v \in {PyStr(<<"5">>)} |->
           [t |-> "float", neg |-> FALSE, bits |-> <<1, 0, 1>>, exp |-> 0]]
    @@ [v \in {PyStr(<<"7", ".", "5", "0">>),
               [t |-> "float", neg |-> FALSE, bits |-> <<1, 1, 1, 1>>,
                exp |-> -1]} |->
           [t |-> "float", neg |-> FALSE, bits |-> <<1, 1, 1, 1>>, exp |-> -1]]
    @@ [v \in {PyStr(<<"0", ".", "0", "0">>), PyLong(FALSE, <<"0">>),
               [t |-> "float", neg |-> FALSE, bits |-> <<>>, exp |-> 0],
               PyStr(<<"1", "e", "-", "1", "2", "3", "4", "5", "6", "7", "8",
                       "9", "0">>)} |->
           [t |-> "float", neg |-> FALSE, bits |-> <<>>, exp |-> 0]]
    @@ [v \in {PyStr(<<"-", "1", ".", "5", "0">>)} |->
           [t |-> "float", neg |-> TRUE, bits |-> <<1, 1>>, exp |-> -1]]
    @@ [v \in {PyStr(<<" ", "1", "e", "3", "\n">>),
               PyStr(<<"1", "_", "0", "0", "0">>)} |->
           [t |-> "float", neg |-> FALSE, bits |-> <<1, 1, 1, 1, 1, 0, 1>>,
            exp |-> 3]]
    @@ [v \in {[t |-> "float", neg |-> FALSE, bits |-> <<1, 0, 0, 1, 1, 1>>,
                exp |-> -1]} |->
           [t |-> "float", neg |-> FALSE, bits |-> <<1, 0, 0, 1, 1, 1>>,
            exp |-> -1]]
    @@ [v \in {PyLong(FALSE, <<"1", "2">>)} |->
           [t |-> "float", neg |-> FALSE, bits |-> <<1, 1>>, exp |-> 2]]
    @@ [v \in {PyStr(<<"i", "n", "f">>)} |->
           [t |-> "float", special |-> "inf", neg |-> FALSE]]
    @@ [v \in {PyStr(<<"U+0663">>)} |->
           [t |-> "float", neg |-> FALSE, bits |-> <<1, 1>>, exp |-> 0]]
    @@ [v \in {PyLong(FALSE, <<"9">>)} |->
           [t |-> "float", neg |-> FALSE, bits |-> <<1, 0, 0, 1>>, exp |-> 0]]
    @@ [v \in {PyStr(<<"0", ".", "0", "0", "0", "2", "e", "0", "0", "0", "0",
                       "0", "0", "0", "0", "0", "4">>)} |->
           [t |-> "float", neg |-> FALSE, bits |-> <<1>>, exp |-> 1]]

\* What a dict holds of the value v of a variant when it takes it from the
\* variant: the float it stands for, and v itself when it stands for none.
Taken(v) == IF v \in DOMAIN Worth THEN Worth[v] ELSE v

\* The compare-at prices in place of which the dict holds None: the missing
\* one, the empty str, the int 0 and the float 0.0.
NoCompareAt ==
    {PyNone, PyStr(<<>>), PyLong(FALSE, <<"0">>),
     [t |-> "float", neg |-> FALSE, bits |-> <<>>, exp |-> 0]}

\* The fields of the dict d made from the record p, `none` being the
\* compare-at prices of a first variant for which d holds None.
FieldsAsClaimed(p, d, none) ==
    /\ p.variants = <<>> =>
          /\ d.price = [t |-> "float", neg |-> FALSE, bits |-> <<>>, exp |-> 0]
          /\ d.sku = ""
          /\ d.inventory_quantity = 0
          /\ d.compare_at_price = PyNone
    /\ p.variants # <<>> =>
          /\ p.variants[1].price \in DOMAIN Worth
          /\ d.price = Worth[p.variants[1].price]
          /\ d.sku = p.variants[1].sku
          /\ d.inventory_quantity = p.variants[1].inventory_quantity
          /\ d.compare_at_price =
                IF p.variants[1].compare_at_price \in none THEN PyNone
                ELSE Taken(p.variants[1].compare_at_price)
    /\ p.images = <<>> => d.image_url = PyNone
    /\ p.images # <<>> => d.image_url = p.images[1].src
    /\ d.url = Https \o shop_url \o ProductsPath \o p.handle

\* Every dict that get_product_by_id or get_products returns has the fields
\* as claimed, and get_products returns one for each record.
MappedAsClaimed(none) ==
    /\ (catOp = "get_product_by_id" /\ ret.t = "dict") =>
          FieldsAsClaimed(sdkReply.record, ret.v, none)
    /\ (catOp = "get_products" /\ ret.v # <<>>) =>
          /\ Len(ret.v) = Len(sdkReply.records)
          /\ \A i \in DOMAIN ret.v :
                FieldsAsClaimed(sdkReply.records[i], ret.v[i], none)

\* C8 as claimed (checked under CatalogSpec): every dict that
\* get_product_by_id or get_products returns has the defaults 0.0, "", 0,
\* None for a record without variants and the first variant's price, SKU,
\* inventory count and compare-at price otherwise (the prices as the floats
\* they stand for, None for a first variant without compare-at price), the
\* first image's src or None, and the url
\* https://<shop_url>/products/<handle>.
C8_FieldMapping == MappedAsClaimed({PyNone})

\* C8 as it holds (checked under CatalogSpec): the same, but for the
\* compare-at price of a first variant that is the empty str, the int 0 or
\* the float 0.0: the dict holds None in its place, as it does for a first
\* variant without compare-at price.
C8_FieldMappingZeroAsNone == MappedAsClaimed(NoCompareAt)

C8_Witness ==
    /\ catOp = "get_product_by_id"
    /\ ret.t = "dict"
    /\ Len(sdkReply.record.variants) = 2
    /\ sdkReply.record.variants[1].sku = "SKU-6"
    /\ sdkReply.record.variants[1].compare_at_price = PyLong(FALSE, <<"0">>)
    /\ sdkReply.record.variants[2].sku = "SKU-2"
    /\ sdkReply.record.images = <<>>
    /\ ret.v.price = [t |-> "float", neg |-> FALSE,
                      bits |-> <<1, 1, 1, 1, 1, 0, 1>>, exp |-> 3]
    /\ ret.v.compare_at_price = PyNone
    /\ ret.v.sku = "SKU-6"
    /\ ret.v.inventory_quantity = 4
    /\ ret.v.image_url = PyNone
    /\ ret.v.url = Https \o Name \o Suffix \o ProductsPath \o Handles[ret.v.id]

\* C11 (checked under CatalogSpec): a session the connector opened does not
\* outlive it.  After disconnect() the handle is None and no session of the
\* connector is activated in the SDK; after a connect() that returned False
\* the connector holds no handle and has no session activated; and when
\* test_connection returns, no session it activated is still active.
C11_SessionAlwaysReleased ==
    /\ catOp = "disconnect" => (session = NoSession /\ opener # "connector")
    /\ (catOp = "connect" /\ ret = RetBool(FALSE)) =>
          (session = NoSession /\ opener # "connector")
    /\ catOp = "test_connection" => opener # "test_connection"

====
